---- MODULE Spec2Model ----
(***************************************************************************)
(* A model of qs.py: the CSV schema normaliser (normalize_csv), the run of *)
(* main() around it (collection of responses per pending date, appending   *)
(* rows to the log) and the interactive prompt helpers (ask_type, ask_yn,  *)
(* ask_choice, ask_date, ask_duration_seconds, ask_quantity).              *)
(*                                                                         *)
(* Abstractions.  A file is a sequence of lines, a line a sequence of      *)
(* cells, the first line the header.  A cell is a string: "" is the empty  *)
(* cell, and a value that was answered for field f is written f, so that a *)
(* cell shows which field its value belongs to.  Python's None is "None".  *)
(* The days that passed since the last row (the pending dates) are the     *)
(* clock's choice.  Field lists are duplicate-free, as a schema is.        *)
(***************************************************************************)
EXTENDS Integers, Sequences, FiniteSets, TLC

\* ------------------------------------------------------------------ bounds
MaxRuns == 2        \* runs of main() (or direct calls of normalize_csv)
MaxRows == 3        \* data rows the log may hold
MaxInitRows == 1    \* data rows of the log before the first run
MaxRetries == 2     \* invalid responses given to one prompt

\* ------------------------------------------------------------ vocabulary
QIds == {"a", "b"}                       \* question ids a config may use
NoneVal == "None"
EmptyCell == ""

Range(s) == {s[i] : i \in 1..Len(s)}

DupFreeSeqs(S) ==
    {s \in UNION {[1..n -> S] : n \in 0..Cardinality(S)} :
        \A i, j \in 1..Len(s) : i # j => s[i] # s[j]}

IsPrefix(s, t) == Len(s) <= Len(t) /\ \A i \in 1..Len(s) : s[i] = t[i]

\* [f for f in s if f in S]
RECURSIVE SelectIn(_, _)
SelectIn(s, S) ==
    IF s = <<>> THEN <<>>
    ELSE (IF Head(s) \in S THEN <<Head(s)>> ELSE <<>>) \o SelectIn(Tail(s), S)

EmptyDict == [k \in {} |-> NoneVal]
\* {**a, **b}
Merge(a, b) ==
    [k \in (DOMAIN a) \cup (DOMAIN b) |-> IF k \in DOMAIN b THEN b[k] ELSE a[k]]

\* ------------------------------------------------------------- the csv module
\* csv.DictReader: a line keyed by the header, position by position; a cell
\* the line lacks reads as None (restval).
ReadRow(header, line) ==
    [f \in Range(header) |->
        LET i == CHOOSE k \in 1..Len(header) : header[k] = f
        IN  IF i <= Len(line) THEN line[i] ELSE NoneVal]

\* csv.writer: None is written as the empty cell.
Render(v) == IF v = NoneVal THEN EmptyCell ELSE v

\* csv.DictWriter.writerow: the cells in the order of its fieldnames, a key
\* the dict lacks written as restval ''.
WriteRow(names, rowdict) ==
    [i \in 1..Len(names) |->
        IF names[i] \in DOMAIN rowdict THEN Render(rowdict[names[i]]) ELSE EmptyCell]

\* csv.DictWriter raises ValueError for a key that is not one of its fieldnames.
WriteRaises(names, rowdict) == ~((DOMAIN rowdict) \subseteq Range(names))

\* ------------------------------------------------------------- the file system
NoFile == [exists |-> FALSE, lines |-> <<>>]
FileOf(ls) == [exists |-> TRUE, lines |-> ls]

csv_path == "log.csv"
temp_path_inplace == csv_path
temp_path == "log.csv.temp"
Paths == {csv_path, temp_path}

VARIABLES
    fs,                     \* path -> file
    pc,                     \* where the program is
    runs,                   \* runs started so far
    fieldnames,             \* normalize_csv: the desired fields
    prompt,                 \* normalize_csv: ask before overwriting
    existing_fieldnames,    \* normalize_csv: the header read
    normalization_results,  \* what normalize_csv returned
    questions,              \* main: the ids of config["questions"]
    dates_to_ask,           \* main: pending dates not yet saved
    qi,                     \* ask_questions: the question being asked
    responses,              \* ask_questions: id -> value collected so far
    fsAtCall,               \* history: fs when normalize_csv was called
    fsAfterNorm,            \* history: fs when normalize_csv returned
    confirmAnswer,          \* history: the answer to "Proceed?"
    prevD,                  \* history: D of the previous call, if it completed
    again,                  \* history: this call repeats the previous D
    renamed,                \* history: this call of normalize_csv renamed
    saved,                  \* history: rows this run of main appended
    ask                     \* the prompt helper being run

vars == <<fs, pc, runs, fieldnames, prompt, existing_fieldnames,
          normalization_results, questions, dates_to_ask, qi, responses,
          fsAtCall, fsAfterNorm, confirmAnswer, prevD, again, renamed, saved,
          ask>>

mainVars == <<questions, dates_to_ask, qi, responses, saved>>
normLocals == <<fieldnames, prompt, existing_fieldnames>>

Header(file) == file.lines[1]
Rows(file) == Tail(file.lines)
csv == fs[csv_path]

\* ------------------------------------------------------- the prompt helpers
\* A value a helper returns: a tag and a number (a float in thousandths).
None == [t |-> "none", n |-> 0]
Invalid == [t |-> "invalid", n |-> 0]      \* the parser raised / found nothing
Pending == [t |-> "pending", n |-> 0]      \* the helper is still prompting
IntVal(n) == [t |-> "int", n |-> n]
FloatVal(n) == [t |-> "float", n |-> n]
StrVal(r) == [t |-> "str", n |-> IF r = "y" THEN 1 ELSE 0]
ChoiceObj(n) == [t |-> "Choice", n |-> n]
DateTime(n) == [t |-> "datetime", n |-> n]

SKIP_STRING == "skip"

\* int(response): a ValueError for anything but an integer literal.
ParseInt(r) ==
    CASE r = "7" -> IntVal(7)
      [] r = "1" -> IntVal(1)
      [] r = "2" -> IntVal(2)
      [] OTHER -> Invalid

\* float(response)
ParseFloat(r) ==
    CASE r = "7" -> FloatVal(7000)
      [] r = "1" -> FloatVal(1000)
      [] r = "2" -> FloatVal(2000)
      [] r = "1.5" -> FloatVal(1500)
      [] OTHER -> Invalid

\* dateutil.parser.parse(response): ParserError for what is no date.
ParseDate(r) == IF r = "2020-01-02" THEN DateTime(20200102) ELSE Invalid

\* pytimeparse.timeparse.timeparse(response): seconds, or None.
TimeParse(r) == IF r = "30m" THEN IntVal(1800) ELSE None

\* unit_registry(response) converted to the unit "kg": the magnitude in
\* thousandths; UndefinedUnitError or DimensionalityError otherwise.
ParseQuantityKg(r) ==
    CASE r = "1.234 kg" -> FloatVal(1234)
      [] r = "1234 g" -> FloatVal(1234)
      [] OTHER -> Invalid

\* round(x, decimals), x in thousandths, decimals in 0..3 (half up; the
\* inputs modelled have no ties).
Pow10(k) == IF k = 0 THEN 1 ELSE IF k = 1 THEN 10 ELSE IF k = 2 THEN 100 ELSE 1000
Round(x, decimals) ==
    LET q == Pow10(3 - decimals)
    IN  FloatVal(((x.n + (q \div 2)) \div q) * q)

\* The choices of the choice question modelled: Choice(1, ..), Choice(2, ..).
ChoiceValues == <<1, 2>>

\* The arguments of one invocation of a helper.
Args(fn, type_, default, skippable, decimals) ==
    [fn |-> fn, type_ |-> type_, default |-> default,
     skippable |-> skippable, decimals |-> decimals]

DefaultDecimals == 2

Return(v) == [kind |-> "return", value |-> v, args |-> Args("", "", "", FALSE, 0),
              passed |-> TRUE]
\* A recursive call with arguments a; passed: its result is returned
\* ("return ask_x(...)"), not dropped.
Recurse(a, passed) == [kind |-> "recurse", value |-> None, args |-> a,
                       passed |-> passed]

ask_type(a, r) ==
    IF a.skippable /\ r = SKIP_STRING THEN Return(None)
    ELSE LET v == IF a.type_ = "int" THEN ParseInt(r) ELSE ParseFloat(r)
         IN  IF v # Invalid THEN Return(v)
             ELSE Recurse(a, FALSE)

ask_choice(a, r) ==
    IF a.skippable /\ r = SKIP_STRING THEN Return(None)
    ELSE IF \E i \in 1..Len(ChoiceValues) : ParseInt(r) = IntVal(ChoiceValues[i])
         THEN Return(ChoiceObj(CHOOSE i \in 1..Len(ChoiceValues) :
                                   ParseInt(r) = IntVal(ChoiceValues[i])))
         ELSE Recurse(a, TRUE)

\* default "" stands for default=None (both are falsy)
ask_yn(a, r) ==
    IF a.skippable /\ r = SKIP_STRING THEN Return(None)
    ELSE IF r = "y" THEN Return(StrVal("y"))
    ELSE IF r = "n" THEN Return(StrVal("n"))
    ELSE IF a.default # "" /\ r = "" THEN Return(StrVal(a.default))
    ELSE Recurse([a EXCEPT !.default = ""], TRUE)

ask_date(a, r) ==
    IF a.skippable /\ r = SKIP_STRING THEN Return(None)
    ELSE IF ParseDate(r) # Invalid THEN Return(ParseDate(r))
    ELSE Recurse(a, TRUE)

ask_duration_seconds(a, r) ==
    IF a.skippable /\ r = SKIP_STRING THEN Return(None)
    ELSE LET duration == TimeParse(r)
         IN  IF duration # None /\ duration.n # 0 THEN Return(duration)
             ELSE Recurse(a, TRUE)

ask_quantity(a, r) ==
    IF a.skippable /\ r = SKIP_STRING THEN Return(None)
    ELSE IF ParseQuantityKg(r) # Invalid
         THEN Return(Round(ParseQuantityKg(r), a.decimals))
         ELSE Recurse([a EXCEPT !.decimals = DefaultDecimals], TRUE)

\* One invocation of helper a.fn reading response r.
AskOnce(a, r) ==
    CASE a.fn = "ask_type" -> ask_type(a, r)
      [] a.fn = "ask_choice" -> ask_choice(a, r)
      [] a.fn = "ask_yn" -> ask_yn(a, r)
      [] a.fn = "ask_date" -> ask_date(a, r)
      [] a.fn = "ask_duration_seconds" -> ask_duration_seconds(a, r)
      [] a.fn = "ask_quantity" -> ask_quantity(a, r)

\* The helper called with arguments a and reading the responses rs in turn:
\* what it returns, or Pending when rs ends before it returns.
RECURSIVE AskRun(_, _)
AskRun(a, rs) ==
    IF rs = <<>> THEN Pending
    ELSE LET o == AskOnce(a, Head(rs))
         IN  IF o.kind = "return" THEN o.value
             ELSE LET v == AskRun(o.args, Tail(rs))
                  IN  IF v = Pending THEN Pending
                      ELSE IF o.passed THEN v ELSE None

\* The responses modelled for each helper.
InputsOf(fn) ==
    {SKIP_STRING, "zz"} \cup
    CASE fn = "ask_type" -> {"", "7", "1.5"}
      [] fn = "ask_choice" -> {"", "1", "2", "7"}
      [] fn = "ask_yn" -> {"", "y", "n"}
      [] fn = "ask_date" -> {"", "2020-01-02"}
      [] fn = "ask_duration_seconds" -> {"", "30m"}
      [] fn = "ask_quantity" -> {"1.234 kg", "1234 g"}

RespSeqs(fn) == UNION {[1..n -> InputsOf(fn)] : n \in 1..(MaxRetries + 1)}

\* What a prompt can come back with.
AskOutcomes(a) == {AskRun(a, rs) : rs \in RespSeqs(a.fn)} \ {Pending}

\* ------------------------------------------------------------ normalize_csv
NoResult == [fieldnames |-> <<"-">>, filler |-> EmptyDict, none |-> TRUE]
Results(names, filler) == [fieldnames |-> names, filler |-> filler, none |-> FALSE]
NoD == <<"-">>
NoAnswer == Pending

new_only_of(D, E) == Range(D) \ Range(E)
old_only_of(D, E) == Range(E) \ Range(D)

fields_match_added_only(D, E) == Cardinality(new_only_of(D, E)) = 0
\* len(new_only) + len(old_only) == 0
fields_match(D, E) ==
    Cardinality(new_only_of(D, E)) + Cardinality(old_only_of(D, E)) = 0

no_change(D) == Results(D, EmptyDict)

combined_fieldnames_desired_first(D, E) == D \o SelectIn(E, Range(E) \ Range(D))
\* existing_fieldnames + [f for f in fieldnames if f in new_only]
combined_fieldnames(D, E) == E \o SelectIn(D, new_only_of(D, E))

new_filler(D, E) == [f \in new_only_of(D, E) |-> NoneVal]
old_filler(D, E) == [f \in old_only_of(D, E) |-> NoneVal]

rewritten_results_no_filler(D, E) == Results(combined_fieldnames(D, E), EmptyDict)
\* the two return statements after the rename
rewritten_results(D, E) ==
    IF Cardinality(old_only_of(D, E)) > 0
    THEN Results(combined_fieldnames(D, E), old_filler(D, E))
    ELSE Results(combined_fieldnames(D, E), EmptyDict)

\* ask_yn(prompt="Proceed?", default="y", skippable=False)
ProceedArgs == Args("ask_yn", "", "y", FALSE, DefaultDecimals)
ProceedOutcomes == AskOutcomes(ProceedArgs)
declined_if_none(answer) == answer = None
declined(answer) == answer = StrVal("n")

\* writer.writerow({**old_row, **new_filler}) for one line of the old file
rewritten_row(D, E, line) ==
    WriteRow(combined_fieldnames(D, E), Merge(ReadRow(E, line), new_filler(D, E)))

\* normalize_csv(csv_path, D, p), up to its first prompt or file write.
NormalizeCsvEnter(D, p) ==
    /\ fieldnames' = D
    /\ prompt' = p
    /\ fsAtCall' = fs
    /\ again' = (prevD = D)
    /\ renamed' = FALSE
    /\ confirmAnswer' = NoAnswer
    /\ fs' = fs
    /\ IF ~csv.exists
       THEN /\ existing_fieldnames' = <<>>
            /\ normalization_results' = no_change(D)
            /\ pc' = "returned"
            /\ prevD' = D
            /\ fsAfterNorm' = fs
       ELSE /\ existing_fieldnames' = Header(csv)
            /\ IF fields_match(D, Header(csv))
               THEN /\ normalization_results' = no_change(D)
                    /\ pc' = "returned"
                    /\ prevD' = D
                    /\ fsAfterNorm' = fs
               ELSE /\ normalization_results' = NoResult
                    /\ pc' = IF p THEN "confirm" ELSE "open"
                    /\ prevD' = NoD
                    /\ fsAfterNorm' = fsAfterNorm

\* The operator answers "Proceed?".
NormConfirm ==
    /\ pc = "confirm"
    /\ \E answer \in ProceedOutcomes :
        /\ confirmAnswer' = answer
        /\ IF declined(answer)
           THEN /\ pc' = "returned"
                /\ fsAfterNorm' = fs
           ELSE /\ pc' = "open"
                /\ fsAfterNorm' = fsAfterNorm
    /\ UNCHANGED <<fs, runs, normLocals, normalization_results, mainVars,
                   fsAtCall, prevD, again, renamed, ask>>

\* open(csv_path, "r"), open(temp_path, "w"): the temp file is created empty.
NormOpen ==
    /\ pc = "open"
    /\ fs' = [fs EXCEPT ![temp_path] = FileOf(<<>>)]
    /\ pc' = "header"
    /\ UNCHANGED <<runs, normLocals, normalization_results, mainVars,
                   fsAtCall, fsAfterNorm, confirmAnswer, prevD, again, renamed, ask>>

\* writer.writeheader()
NormWriteHeader ==
    /\ pc = "header"
    /\ fs' = [fs EXCEPT ![temp_path] =
                FileOf(<<combined_fieldnames(fieldnames, existing_fieldnames)>>)]
    /\ pc' = "copy"
    /\ UNCHANGED <<runs, normLocals, normalization_results, mainVars,
                   fsAtCall, fsAfterNorm, confirmAnswer, prevD, again, renamed, ask>>

\* One turn of "for old_row in reader: writer.writerow(...)".
NormCopyRow ==
    /\ pc = "copy"
    /\ fs[temp_path].exists /\ csv.exists
    /\ Len(fs[temp_path].lines) >= 1
    /\ Len(fs[temp_path].lines) < Len(csv.lines)
    /\ LET line == csv.lines[Len(fs[temp_path].lines) + 1]
           rowdict == Merge(ReadRow(existing_fieldnames, line),
                            new_filler(fieldnames, existing_fieldnames))
       IN  IF WriteRaises(combined_fieldnames(fieldnames, existing_fieldnames), rowdict)
           THEN /\ pc' = "killed"
                /\ fs' = fs
           ELSE /\ pc' = "copy"
                /\ fs' = [fs EXCEPT ![temp_path] = FileOf(Append(@.lines,
                             rewritten_row(fieldnames, existing_fieldnames, line)))]
    /\ UNCHANGED <<runs, normLocals, normalization_results, mainVars,
                   fsAtCall, fsAfterNorm, confirmAnswer, prevD, again, renamed, ask>>

\* The files are closed, os.rename(temp_path, csv_path), and the results returned.
NormRename ==
    /\ pc = "copy"
    /\ fs[temp_path].exists /\ csv.exists
    /\ Len(fs[temp_path].lines) >= Len(csv.lines)
    /\ fs' = [p \in Paths |-> IF p = csv_path THEN fs[temp_path] ELSE NoFile]
    /\ normalization_results' = rewritten_results(fieldnames, existing_fieldnames)
    /\ pc' = "returned"
    /\ prevD' = fieldnames
    /\ fsAfterNorm' = fs'
    /\ renamed' = TRUE
    /\ UNCHANGED <<runs, normLocals, mainVars, fsAtCall, confirmAnswer, again, ask>>

\* The process dies in normalize_csv: an interrupt at the prompt, a crash or
\* a file system error during the rewrite.
NormCrash ==
    /\ pc \in {"confirm", "open", "header", "copy"}
    /\ pc' = "killed"
    /\ UNCHANGED <<fs, runs, normLocals, normalization_results, mainVars,
                   fsAtCall, fsAfterNorm, confirmAnswer, prevD, again, renamed, ask>>

NormSteps ==
    \/ NormConfirm
    \/ NormOpen
    \/ NormWriteHeader
    \/ NormCopyRow
    \/ NormRename
    \/ NormCrash

\* ---------------------------------------------------------------- initial states
\* A log written earlier: a header and rows whose cells hold a value of
\* their own column.
InitFile(header, n) == FileOf(<<header>> \o [i \in 1..n |-> header])

AskIdle == [args |-> Args("", "", "", FALSE, 0), rs |-> <<>>, result |-> Pending]

InitCommon ==
    /\ pc = "idle"
    /\ runs = 0
    /\ fieldnames = <<>>
    /\ prompt = FALSE
    /\ existing_fieldnames = <<>>
    /\ normalization_results = NoResult
    /\ questions = <<>>
    /\ dates_to_ask = 0
    /\ qi = 0
    /\ responses = EmptyDict
    /\ fsAtCall = fs
    /\ fsAfterNorm = fs
    /\ confirmAnswer = NoAnswer
    /\ prevD = NoD
    /\ again = FALSE
    /\ renamed = FALSE
    /\ saved = 0
    /\ ask = AskIdle

\* ------------------------------------------- normalize_csv called on its own
NormFields == {"date"} \cup QIds
DesiredLists == DupFreeSeqs(NormFields) \ {<<>>}

InitNorm ==
    /\ \E file \in {NoFile} \cup
                   {InitFile(h, n) : h \in DesiredLists, n \in 0..MaxInitRows} :
          fs = [p \in Paths |-> IF p = csv_path THEN file ELSE NoFile]
    /\ InitCommon

NormalizeCall ==
    /\ pc \in {"idle", "returned", "killed"}
    /\ runs < MaxRuns
    /\ runs' = runs + 1
    /\ \E D \in DesiredLists, p \in BOOLEAN : NormalizeCsvEnter(D, p)
    /\ UNCHANGED <<mainVars, ask>>

NextNorm == NormalizeCall \/ NormSteps

SpecNorm == InitNorm /\ [][NextNorm]_vars

\* ------------------------------------------------------------------- main()
Configs == DupFreeSeqs(QIds)

\* ["date", "recorded"] + [question["id"] for question in config["questions"]]
desired_fieldnames(q) == <<"date", "recorded">> \o q

InRun == {"returned", "ask", "save"}
Ended == {"declined", "finished", "interrupted", "discarded", "killed",
          "killed_at_save", "unbound_error"}

InitMain ==
    /\ \E file \in {NoFile} \cup
                   {InitFile(desired_fieldnames(q), n) :
                        q \in Configs, n \in 0..MaxInitRows} :
          fs = [p \in Paths |-> IF p = csv_path THEN file ELSE NoFile]
    /\ InitCommon

\* A run of main() starts: the config is loaded and normalize_csv called.
MainStart ==
    /\ pc \in {"idle"} \cup Ended
    /\ runs < MaxRuns
    /\ runs' = runs + 1
    /\ \E q \in Configs :
        /\ questions' = q
        /\ NormalizeCsvEnter(desired_fieldnames(q), TRUE)
    /\ dates_to_ask' = 0
    /\ qi' = 0
    /\ responses' = EmptyDict
    /\ saved' = 0
    /\ ask' = ask

\* ask_questions starts for a date: responses = [date, recorded].
BeginDate ==
    /\ responses' = [f \in {"date", "recorded"} |-> f]
    /\ qi' = 1
    /\ pc' = IF questions = <<>> THEN "save" ELSE "ask"

\* normalize_csv has returned: main reads the last row's date and lists the
\* pending dates (as many as days have passed since; the clock decides).
MainAfterNormalize ==
    /\ pc = "returned"
    /\ IF normalization_results.none
       THEN /\ pc' = "declined"
            /\ UNCHANGED <<dates_to_ask, qi, responses>>
       ELSE IF csv.exists /\ Rows(csv) # <<>>
       THEN \E n \in 0..(MaxRows - Len(Rows(csv))) :
              /\ dates_to_ask' = n
              /\ IF n = 0
                 THEN /\ pc' = "finished"
                      /\ UNCHANGED <<qi, responses>>
                 ELSE BeginDate
       ELSE \* last_date (or row) was never assigned: UnboundLocalError
            /\ pc' = "unbound_error"
            /\ UNCHANGED <<dates_to_ask, qi, responses>>
    /\ UNCHANGED <<fs, runs, normLocals, normalization_results, questions,
                   saved, fsAtCall, fsAfterNorm, confirmAnswer, prevD, again,
                   renamed, ask>>

\* One question of ask_questions: not due on this date (no response), or
\* asked and answered, or asked and skipped (None).
AskQuestion ==
    /\ pc = "ask"
    /\ qi <= Len(questions)
    /\ \E outcome \in {"not_due", "answered", "skipped"} :
          responses' =
             IF outcome = "not_due" THEN responses
             ELSE Merge(responses,
                        [f \in {questions[qi]} |->
                            IF outcome = "answered" THEN f ELSE NoneVal])
    /\ qi' = qi + 1
    /\ pc' = IF qi = Len(questions) THEN "save" ELSE "ask"
    /\ UNCHANGED <<fs, runs, normLocals, normalization_results, questions,
                   dates_to_ask, saved, fsAtCall, fsAfterNorm, confirmAnswer,
                   prevD, again, renamed, ask>>

\* What the KeyboardInterrupt handler leaves of the file system.
interrupted_fs_partial(f, names, resp) ==
    [f EXCEPT ![csv_path] = FileOf(Append(@.lines, WriteRow(names, resp)))]
interrupted_fs(f, names, resp) == f

\* ^C at a question: except KeyboardInterrupt: print; return.
Interrupt ==
    /\ pc = "ask"
    /\ pc' = "interrupted"
    /\ fs' = interrupted_fs(fs, normalization_results.fieldnames, responses)
    /\ responses' = EmptyDict
    /\ UNCHANGED <<runs, normLocals, normalization_results, questions,
                   dates_to_ask, qi, saved, fsAtCall, fsAfterNorm,
                   confirmAnswer, prevD, again, renamed, ask>>

\* ask_yn("\nSave these responses?", default="y", skippable=False)
SaveArgs == Args("ask_yn", "", "y", FALSE, DefaultDecimals)
SaveOutcomes == AskOutcomes(SaveArgs)

\* The file system after the row of this date is written (lines 485-496).
appended_fs(f, names, rowdict) ==
    LET created == IF f[csv_path].exists THEN f
                   ELSE [f EXCEPT ![csv_path] = FileOf(<<names>>)]
    IN  [created EXCEPT ![csv_path] = FileOf(Append(@.lines, WriteRow(names, rowdict)))]

\* The operator answers "Save these responses?".
Save ==
    /\ pc = "save"
    /\ \E answer \in SaveOutcomes :
         IF answer = StrVal("n")
         THEN /\ pc' = "discarded"
              /\ responses' = EmptyDict
              /\ UNCHANGED <<fs, dates_to_ask, qi, saved>>
         ELSE LET rowdict == Merge(responses, normalization_results.filler)
              IN  IF WriteRaises(normalization_results.fieldnames, rowdict)
                  THEN /\ pc' = "killed"
                       /\ UNCHANGED <<fs, dates_to_ask, qi, saved, responses>>
                  ELSE /\ fs' = appended_fs(fs, normalization_results.fieldnames,
                                            rowdict)
                       /\ saved' = saved + 1
                       /\ dates_to_ask' = dates_to_ask - 1
                       /\ IF dates_to_ask = 1
                          THEN /\ pc' = "finished"
                               /\ responses' = EmptyDict
                               /\ qi' = qi
                          ELSE BeginDate
    /\ UNCHANGED <<runs, normLocals, normalization_results, questions,
                   fsAtCall, fsAfterNorm, confirmAnswer, prevD, again, renamed,
                   ask>>

\* ^C at "Save these responses?": outside the try, the process dies.
SaveInterrupt ==
    /\ pc = "save"
    /\ pc' = "killed_at_save"
    /\ responses' = EmptyDict
    /\ UNCHANGED <<fs, runs, normLocals, normalization_results, questions,
                   dates_to_ask, qi, saved, fsAtCall, fsAfterNorm,
                   confirmAnswer, prevD, again, renamed, ask>>

Next ==
    \/ MainStart
    \/ NormSteps
    \/ MainAfterNormalize
    \/ AskQuestion
    \/ Interrupt
    \/ Save
    \/ SaveInterrupt

Spec == InitMain /\ [][Next]_vars

\* ------------------------------------------------- a prompt helper on its own
HelperCalls ==
    {Args("ask_type", t, "", s, DefaultDecimals) : t \in {"int", "float"}, s \in BOOLEAN}
    \cup {Args(fn, "", "", s, DefaultDecimals) :
            fn \in {"ask_choice", "ask_date", "ask_duration_seconds"}, s \in BOOLEAN}
    \cup {Args("ask_yn", "", d, s, DefaultDecimals) : d \in {"", "y", "n"}, s \in BOOLEAN}
    \cup {Args("ask_quantity", "", "", s, d) : d \in {0, 2, 3}, s \in BOOLEAN}

InitAsk ==
    /\ fs = [p \in Paths |-> NoFile]
    /\ InitCommon

\* A helper is called.
AskCall ==
    /\ ask.args.fn = "" \/ ask.result # Pending
    /\ \E a \in HelperCalls : ask' = [args |-> a, rs |-> <<>>, result |-> Pending]
    /\ UNCHANGED <<fs, pc, runs, normLocals, normalization_results, mainVars,
                   fsAtCall, fsAfterNorm, confirmAnswer, prevD, again, renamed>>

\* The user types a response at the helper's prompt.
AskRespond ==
    /\ ask.args.fn # ""
    /\ ask.result = Pending
    /\ Len(ask.rs) <= MaxRetries
    /\ \E r \in InputsOf(ask.args.fn) :
         ask' = [ask EXCEPT !.rs = Append(@, r),
                            !.result = AskRun(ask.args, Append(ask.rs, r))]
    /\ UNCHANGED <<fs, pc, runs, normLocals, normalization_results, mainVars,
                   fsAtCall, fsAfterNorm, confirmAnswer, prevD, again, renamed>>

NextAsk == AskCall \/ AskRespond

SpecAsk == InitAsk /\ [][NextAsk]_vars

\* ==================================================================== claims
OldCsv == fsAtCall[csv_path]
NormCsv == fsAfterNorm[csv_path]
InNormalize == {"confirm", "open", "header", "copy"}

\* Every data row of the file has as many cells as the header, each cell
\* empty or a value of the field that heads its column.
Aligned(file) ==
    \A i \in 2..Len(file.lines) :
        /\ Len(file.lines[i]) = Len(Header(file))
        /\ \A j \in 1..Len(Header(file)) :
              file.lines[i][j] \in {EmptyCell, Header(file)[j]}

\* h is E in its order followed by the fields of D - E in the order of D.
MergedOrder(h, E, D) ==
    /\ IsPrefix(E, h)
    /\ Range(h) = Range(E) \cup Range(D)
    /\ \A i, j \in 1..Len(h) : i # j => h[i] # h[j]
    /\ \A i, j \in (Len(E) + 1)..Len(h) :
          i < j => \E k, l \in 1..Len(D) : k < l /\ D[k] = h[i] /\ D[l] = h[j]

\* new is old rewritten under header h: as many lines, every old row with
\* its cells kept in the old columns and an empty cell in each added column.
RowsCarried(old, new, h) ==
    /\ Len(new.lines) = Len(old.lines)
    /\ \A i \in 2..Len(old.lines) :
          /\ Len(new.lines[i]) = Len(h)
          /\ \A j \in 1..Len(h) :
                new.lines[i][j] =
                    IF j <= Len(old.lines[i]) THEN old.lines[i][j] ELSE EmptyCell

\* C1: after any sequence of runs, every row of the log, old or newly
\* appended, has exactly the columns of the header, each value under the
\* column of its own field.
C1_RowsAligned == csv.exists => Aligned(csv)

\* C2: when the existing header E and the desired list D are equal as sets,
\* normalize_csv returns fieldnames equal to E, an empty filler, and writes
\* nothing.
C2_SameSetReturnsExisting ==
    (/\ pc = "returned"
     /\ OldCsv.exists
     /\ Range(fieldnames) = Range(Header(OldCsv)))
    => /\ normalization_results.fieldnames = Header(OldCsv)
       /\ normalization_results.filler = EmptyDict
       /\ ~renamed
       /\ fs = fsAtCall

\* C3 as claimed: a second call with the D of a completed first call takes
\* the fast path: no confirmation, no rewrite, the file system as it was.
C3_SecondCallFastPath ==
    again => /\ pc = "returned"
             /\ confirmAnswer = NoAnswer
             /\ ~renamed
             /\ fs = fsAtCall

\* C3 amended: a second call with the D of a completed first call leaves the
\* contents of the log identical; it takes the fast path (no confirmation, no
\* temp file, no rename) exactly when the header has no field that D lacks;
\* otherwise it asks again (when prompting) and, unless declined, rewrites
\* the log through the temp file, adding no column.
C3_SecondCallSameContents ==
    again =>
        LET removed == OldCsv.exists /\ old_only_of(fieldnames, Header(OldCsv)) # {}
        IN  /\ ~removed => /\ pc = "returned"
                           /\ confirmAnswer = NoAnswer
                           /\ ~renamed
                           /\ fs = fsAtCall
            /\ removed => /\ new_only_of(fieldnames, Header(OldCsv)) = {}
                          /\ pc = "returned" =>
                                (renamed \/ confirmAnswer = StrVal("n"))
                          /\ (prompt /\ pc \in {"open", "header", "copy"})
                                => confirmAnswer \in {StrVal("y")}
            /\ pc = "returned" => csv = OldCsv

C3_Witness ==
    /\ again
    /\ pc = "returned"
    /\ renamed
    /\ Len(csv.lines) >= 2
    /\ csv = OldCsv

\* C4: while normalize_csv rewrites (and after a crash in it) the log is the
\* file it was when normalize_csv was called; once renamed, the log is the
\* complete rewritten file: the merged header and every old row carried over.
C4_AtomicRewrite ==
    /\ pc \in InNormalize \cup {"killed"} => csv = OldCsv
    /\ (pc = "returned" /\ ~renamed) => csv = OldCsv
    /\ (pc = "returned" /\ renamed) =>
          /\ csv.exists
          /\ MergedOrder(Header(csv), Header(OldCsv), fieldnames)
          /\ RowsCarried(OldCsv, csv, Header(csv))
          /\ ~fs[temp_path].exists

C4_Witness ==
    /\ pc = "killed"
    /\ fs[temp_path].exists
    /\ Len(fs[temp_path].lines) >= 1
    /\ Len(fs[temp_path].lines) < Len(csv.lines)
    /\ Header(fs[temp_path]) # Header(csv)

\* C5 as claimed: after an interrupt at a question the file system is
\* exactly as normalize_csv left it.
C5_InterruptLeavesNormalized == pc = "interrupted" => fs = fsAfterNorm

\* C5 amended: after an interrupt at a prompt of some date (a question, or
\* the save confirmation), the log is as normalize_csv left it followed by
\* the complete rows saved for the earlier dates of this run, and nothing
\* else: no row for the interrupted date, whose responses are discarded.
C5_InterruptKeepsSavedOnly ==
    pc \in {"interrupted", "killed_at_save"} =>
        /\ responses = EmptyDict
        /\ dates_to_ask >= 1
        /\ fs[temp_path] = fsAfterNorm[temp_path]
        /\ csv.exists
        /\ Len(csv.lines) = Len(NormCsv.lines) + saved
        /\ SubSeq(csv.lines, 1, Len(NormCsv.lines)) = NormCsv.lines
        /\ \A i \in (Len(NormCsv.lines) + 1)..Len(csv.lines) :
              Len(csv.lines[i]) = Len(normalization_results.fieldnames)

C5_Witness ==
    /\ pc = "interrupted"
    /\ saved >= 1
    /\ qi >= 2

\* C6: whenever normalize_csv returns a result, the run goes on to the
\* collection and does not fail before it.
C6_ProceedsToCollection ==
    ~(pc = "unbound_error" /\ ~normalization_results.none)

\* C7: after any invalid responses, a helper returns what it would have
\* returned had the final response (valid, skip, or empty with a default)
\* been the first.
C7_RetryTransparent ==
    (/\ Len(ask.rs) >= 1
     /\ AskRun(ask.args, <<ask.rs[Len(ask.rs)]>>) # Pending)
    => ask.result = AskRun(ask.args, <<ask.rs[Len(ask.rs)]>>)

\* C8: when the operator answers no to "Proceed?", normalize_csv returns no
\* result, the file system is as it was, and the run ends with no question
\* asked and no row appended.
C8_DeclineLeavesAll ==
    confirmAnswer = StrVal("n") =>
        /\ normalization_results.none
        /\ fs = fsAtCall
        /\ pc \in {"returned", "declined"}
        /\ saved = 0
        /\ qi = 0
        /\ responses = EmptyDict

C8_Witness ==
    /\ pc = "declined"
    /\ confirmAnswer = StrVal("n")
    /\ csv.exists
    /\ Len(csv.lines) >= 2
    /\ Range(fieldnames) # Range(Header(csv))

\* The call found a header E that is a strict superset of D.
PureRemoval ==
    /\ OldCsv.exists
    /\ Range(fieldnames) \subseteq Range(Header(OldCsv))
    /\ Range(fieldnames) # Range(Header(OldCsv))

\* C9: for a pure removal, a completed normalize_csv returns the header E
\* unchanged as fieldnames and a filler whose keys are exactly E - D, each
\* None; the header stays E; every row appended in the run has an empty cell
\* in every column of E - D.
C9_PureRemovalFiller ==
    (/\ pc \in (InRun \cup Ended) \ {"declined"}
     /\ ~normalization_results.none
     /\ PureRemoval)
    => LET E == Header(OldCsv)
           gone == Range(E) \ Range(fieldnames)
       IN  /\ normalization_results.fieldnames = E
           /\ DOMAIN normalization_results.filler = gone
           /\ \A f \in gone : normalization_results.filler[f] = NoneVal
           /\ Header(csv) = E
           /\ Len(csv.lines) = Len(NormCsv.lines) + saved
           /\ \A i \in (Len(NormCsv.lines) + 1)..Len(csv.lines) :
                 /\ Len(csv.lines[i]) = Len(E)
                 /\ \A j \in 1..Len(E) :
                       E[j] \in gone => csv.lines[i][j] = EmptyCell

C9_Witness ==
    /\ pc = "finished"
    /\ saved >= 1
    /\ ~normalization_results.none
    /\ PureRemoval
    /\ \E j \in 3..Len(csv.lines[Len(csv.lines)]) :
          csv.lines[Len(csv.lines)][j] # EmptyCell

\* C10: a rewrite writes (and returns) the header E followed by the fields
\* of D - E in the order of D; no step ever removes or moves a column: the
\* header before is a prefix of the header after, and every old row keeps
\* its cells and gets an empty cell in each added column.
C10_Step ==
    /\ (csv.exists /\ csv'.exists) => IsPrefix(Header(csv), Header(csv'))
    /\ (renamed' /\ ~renamed) =>
          /\ MergedOrder(Header(csv'), Header(csv), fieldnames)
          /\ normalization_results'.fieldnames = Header(csv')
          /\ RowsCarried(csv, csv', Header(csv'))

C10_MergedColumnOrder == [][C10_Step]_vars

C10_Witness ==
    /\ pc = "returned"
    /\ renamed
    /\ Len(csv.lines) >= 2
    /\ Len(Header(csv)) >= Len(Header(OldCsv)) + 2
    /\ Header(OldCsv)[1] \in Range(fieldnames)
    /\ Header(OldCsv)[1] # fieldnames[1]

====
